---- MODULE Spec2Model ----
(***************************************************************************)
(* Cane & Camera static photo site: the gallery loader (gallery.js, and    *)
(* its copy in documentaries.js), the lightbox carousel and the            *)
(* documentary renderer (documentaries.js) and the anchor-scroll helper    *)
(* (main.js), as one state machine over the page's DOM.                    *)
(*                                                                         *)
(* A JavaScript string is a sequence of one-character strings, so that     *)
(* toLowerCase and localeCompare are computed, not assumed.  An optional   *)
(* value (a URL parameter, a JSON field) is a record [present, s].         *)
(* Array indices keep their JavaScript (0-based) values; nodes[i] of the   *)
(* code is nodes[i + 1] here.                                              *)
(***************************************************************************)
EXTENDS Integers, Sequences, FiniteSets, TLC

(* ------------------------------ bounds -------------------------------- *)

\* longest manifest the page specification draws
MaxRecords == 41
\* longest manifest the loader specification draws (all contents enumerated)
MaxManifest == 3
\* most entries the intersection observer queues before one delivery
MaxEntries == 3
\* interval handles the browser may hand out
MaxTimers == 2
\* right-arrow presses counted after a thumbnail click
MaxPresses == 3

(* --------------------------- program constants ------------------------- *)

BATCH_SIZE == 20

(* ------------------------------ strings -------------------------------- *)

None == [present |-> FALSE, s |-> <<>>]
Some(str) == [present |-> TRUE, s |-> str]

Upper == <<"A", "B", "C", "D", "E", "F", "G", "H", "I", "J", "K", "L", "M",
           "N", "O", "P", "Q", "R", "S", "T", "U", "V", "W", "X", "Y", "Z">>
Lower == <<"a", "b", "c", "d", "e", "f", "g", "h", "i", "j", "k", "l", "m",
           "n", "o", "p", "q", "r", "s", "t", "u", "v", "w", "x", "y", "z">>

\* String.prototype.toLowerCase on one character
ToLowerChar(c) ==
  IF \E k \in DOMAIN Upper : Upper[k] = c
    THEN Lower[CHOOSE k \in DOMAIN Upper : Upper[k] = c]
    ELSE c

\* String.prototype.toLowerCase
toLowerCase(str) == [k \in DOMAIN str |-> ToLowerChar(str[k])]

\* the characters a datetime string is made of, in collation order
Collation == <<"0", "1", "2", "3", "4", "5", "6", "7", "8", "9">>

Rank(c) == CHOOSE k \in DOMAIN Collation : Collation[k] = c

RECURSIVE localeCompare(_, _)
\* a.localeCompare(b) on strings of digits: -1, 0 or 1, character by
\* character, a proper prefix (the empty string first of all) comparing less
localeCompare(a, b) ==
  IF a = <<>> /\ b = <<>> THEN 0
  ELSE IF a = <<>> THEN -1
  ELSE IF b = <<>> THEN 1
  ELSE IF Rank(Head(a)) < Rank(Head(b)) THEN -1
  ELSE IF Rank(Head(a)) > Rank(Head(b)) THEN 1
  ELSE localeCompare(Tail(a), Tail(b))

\* the JavaScript idiom  x || ""  on an optional string
OrEmpty(o) == IF o.present THEN o.s ELSE <<>>

Str_all == <<"a", "l", "l">>
Str_ALL == <<"A", "L", "L">>
Str_wildlife == <<"w", "i", "l", "d", "l", "i", "f", "e">>
Str_Wildlife == <<"W", "i", "l", "d", "L", "i", "f", "e">>
Str_landscapes == <<"l", "a", "n", "d", "s", "c", "a", "p", "e", "s">>
Str_panoramas == <<"p", "a", "n", "o", "r", "a", "m", "a", "s">>
Str_documentaries ==
  <<"d", "o", "c", "u", "m", "e", "n", "t", "a", "r", "i", "e", "s">>
Str_zoo == <<"z", "o", "o">>
Str_Zoo == <<"Z", "o", "o">>

\* the keys of LABELS
LABELS ==
  {Str_wildlife, Str_landscapes, Str_panoramas, Str_documentaries, Str_all}

(* ------------------------------- state --------------------------------- *)

VARIABLES
  g,                \* the URL's g parameter: None when absent
  manifest,         \* photos.json: a sequence of photo records
  container,        \* the page has #cc-masonry
  lgx,              \* the page has #lgx
  sentinel,         \* #cc-sentinel: "absent", "attached" or "removed"
  gpc,              \* where init() of the loader stands
  gKey,             \* init's gKey
  heading,          \* the LABELS key whose title and description are shown
  data,             \* init's data: the slugs of its records, in order
  idx,              \* init's idx, the pagination index
  grid,             \* the slugs of the cards in #cc-masonry, in document order
  observing,        \* io observes the sentinel
  intersecting,     \* the sentinel is inside the root margin right now
  prevIntersecting, \* what the observer last reported: "none", "yes", "no"
  entries,          \* entries queued for the next delivery of io's callback
  nodes,            \* lightbox: nodes
  cursor,           \* lightbox: idx
  playing,          \* lightbox: playing
  timer,            \* lightbox: timer, 0 for null
  activeTimers,     \* the interval handles that are set and not cleared
  shown,            \* #lgx carries the class "show"
  imgEl,            \* the slug of the image in .lgx__img, 0 when none
  mutationPending,  \* the grid's MutationObserver has a record to deliver
  sx,               \* lightbox: sx, clientX of the last touchstart
  sy,               \* lightbox: sy, clientY of the last touchstart
  trail,            \* <<k, n>>: the k-th thumbnail was clicked and the right
                    \* arrow pressed n times since, nothing else; else <<>>
  docuGrid,         \* the page has #docuGrid
  dpc,              \* where the documentary renderer's handler stands
  docuCards,        \* the number of cards in #docuGrid
  scrolledTo,       \* the element the anchor helper scrolled to, "none" if none
  uncaught          \* the errors that handlers raised and nothing caught

pageVars == <<g, manifest, container, lgx>>
loaderVars == <<gpc, gKey, heading, data, idx>>
observerVars == <<observing, intersecting, prevIntersecting, entries>>
lgxVars == <<nodes, cursor, playing, timer, activeTimers, shown, imgEl>>
touchVars == <<sx, sy>>
staticVars == <<docuGrid, dpc, docuCards, scrolledTo, uncaught>>
vars == <<pageVars, sentinel, loaderVars, grid, observerVars, lgxVars,
          mutationPending, touchVars, trail, staticVars>>

(* --------------------------- gallery loader ---------------------------- *)

\* getGalleryKey: (params.get("g") || "all").toLowerCase(); get() gives null
\* for an absent parameter, and both null and "" are falsy
getGalleryKey(param) ==
  toLowerCase(IF param.present /\ param.s # <<>> THEN param.s ELSE Str_all)

\* setHeading without the fallback to LABELS.all
setHeadingNoFallback(key) == key

\* setHeading: LABELS[gKey] || LABELS.all
setHeading(key) == IF key \in LABELS THEN key ELSE Str_all

\* the filter with the tag compared as written, not lower-cased
filterDataCaseSensitive(d, key) ==
  IF key # Str_all
    THEN SelectSeq(d, LAMBDA p : OrEmpty(p.gallery) = key)
    ELSE d

\* the filter of init
filterData(d, key) ==
  IF key # Str_all
    THEN SelectSeq(d, LAMBDA p : toLowerCase(OrEmpty(p.gallery)) = key)
    ELSE d

\* the comparator with its operands the other way round: oldest first
compareAscending(a, b) ==
  localeCompare(OrEmpty(a.datetime), OrEmpty(b.datetime))

\* the comparator of init's sort: (a,b) => (b.datetime||"").localeCompare(a.datetime||"")
compare(a, b) == localeCompare(OrEmpty(b.datetime), OrEmpty(a.datetime))

\* the least element of a non-empty set of numbers
Least(S) == CHOOSE k \in S : \A j \in S : k <= j

\* Array.prototype.sort is stable: x goes in front of the first element
\* that the comparator orders after it, behind everything else
InsertSorted(sorted, x) ==
  CHOOSE r \in {SubSeq(sorted, 1, at - 1) \o <<x>> \o
                  SubSeq(sorted, at, Len(sorted)) :
                  at \in {IF after = {} THEN Len(sorted) + 1 ELSE Least(after) :
                          after \in {{k \in DOMAIN sorted :
                                        compare(sorted[k], x) > 0}}}} : TRUE

RECURSIVE SortFrom(_, _)
\* the elements of rest inserted one after the other (each intermediate
\* list is bound to a value before the next insertion reads it)
SortFrom(sorted, rest) ==
  IF rest = <<>> THEN sorted
  ELSE CHOOSE r \in {SortFrom(v, t) :
                       v \in {InsertSorted(sorted, Head(rest))},
                       t \in {Tail(rest)}} : TRUE

\* data.sort(...)
sortData(d) == CHOOSE r \in {SortFrom(<<>>, v) : v \in {d}} : TRUE

Min(a, b) == IF a < b THEN a ELSE b

\* appendBatch without the batch limit: everything that is left at once
appendBatchAll(st, d) ==
  LET end == Len(d)
      frag == [k \in 1..(end - st.idx) |-> d[st.idx + k]]
  IN  [st EXCEPT !.idx = end,
                 !.grid = st.grid \o frag,
                 !.mutated = st.mutated \/ frag # <<>>]

\* appendBatch that takes its cards from the front of the list each time
appendBatchFromStart(st, d) ==
  LET end == Min(st.idx + BATCH_SIZE, Len(d))
      frag == [k \in 1..(end - st.idx) |-> d[k]]
  IN  [st EXCEPT !.idx = end,
                 !.grid = st.grid \o frag,
                 !.mutated = st.mutated \/ frag # <<>>]

\* the records of a list as the slugs that name them
Slugs(d) == [k \in DOMAIN d |-> d[k].slug]

\* appendBatch on the loader's local state st = [idx, grid, observing,
\* sentinel, mutated]: the cards of d[idx .. end-1] go to the end of the grid
appendBatch(st, d) ==
  LET end == Min(st.idx + BATCH_SIZE, Len(d))
      frag == [k \in 1..(end - st.idx) |-> d[st.idx + k]]
  IN  [st EXCEPT !.idx = end,
                 !.grid = st.grid \o frag,
                 !.mutated = st.mutated \/ frag # <<>>]

\* the loop body with the end test the wrong way round (idx <= data.length)
onEntryEagerRemove(isIntersecting, st, d) ==
  IF isIntersecting
    THEN LET a == IF st.idx < Len(d) THEN appendBatch(st, d) ELSE st
         IN  IF a.idx <= Len(d)
               THEN [a EXCEPT !.observing = FALSE,
                              !.sentinel = "removed"]
               ELSE a
    ELSE st

\* the body of the observer callback's loop for one entry
onEntry(isIntersecting, st, d) ==
  IF isIntersecting
    THEN LET a == IF st.idx < Len(d) THEN appendBatch(st, d) ELSE st
         IN  IF a.idx >= Len(d)
               THEN [a EXCEPT !.observing = FALSE,
                              !.sentinel = "removed"]
               ELSE a
    ELSE st

RECURSIVE ioCallback(_, _, _)
\* the IntersectionObserver callback: for (const entry of entries) ...
ioCallback(es, st, d) ==
  IF es = <<>> THEN st
  ELSE CHOOSE r \in {ioCallback(Tail(es), v, d) :
                       v \in {onEntry(Head(es), st, d)}} : TRUE

\* the lightbox IIFE went past its guard: #cc-masonry and #lgx exist
Installed == container /\ lgx

\* a task (event handler, timer, observer callback) starts only after the
\* microtasks of the one before it, the MutationObserver's among them
TaskMayRun == ~mutationPending

loaderState ==
  [idx |-> idx, grid |-> grid, observing |-> observing,
   sentinel |-> sentinel, mutated |-> FALSE]

\* init up to the await without the container guard
DOMContentLoadedNoGuard ==
  /\ TaskMayRun
  /\ gpc = "loading"
  /\ gKey' = getGalleryKey(g)
  /\ heading' = setHeading(gKey')
  /\ gpc' = "fetching"
  /\ trail' = <<>>
  /\ UNCHANGED <<pageVars, sentinel, data, idx, grid, observerVars, lgxVars,
                 mutationPending, touchVars, staticVars>>

\* init up to the await: the container guard, getGalleryKey, setHeading
DOMContentLoaded ==
  /\ TaskMayRun
  /\ gpc = "loading"
  /\ IF ~container
       THEN /\ gpc' = "aborted"
            /\ UNCHANGED <<gKey, heading>>
       ELSE /\ gKey' = getGalleryKey(g)
            /\ heading' = setHeading(gKey')
            /\ gpc' = "fetching"
  /\ UNCHANGED <<pageVars, sentinel, data, idx, grid, observerVars, lgxVars,
                 mutationPending>>
  /\ trail' = <<>>
  /\ UNCHANGED <<touchVars, staticVars>>

\* a failed fetch after which init goes on with an empty manifest and
\* installs its observer
FetchFailCaught ==
  /\ TaskMayRun
  /\ gpc = "fetching"
  /\ gpc' = "failed"
  /\ observing' = (sentinel # "absent")
  /\ trail' = <<>>
  /\ UNCHANGED <<pageVars, sentinel, gKey, heading, data, idx, grid,
                 intersecting, prevIntersecting, entries, lgxVars,
                 mutationPending, touchVars, staticVars>>

\* fetchData throws on a response that is not ok, and nothing catches it
FetchFail ==
  /\ TaskMayRun
  /\ gpc = "fetching"
  /\ gpc' = "failed"
  /\ UNCHANGED <<pageVars, sentinel, gKey, heading, data, idx, grid,
                 observerVars, lgxVars, mutationPending>>
  /\ trail' = <<>>
  /\ uncaught' = uncaught \cup {"Error"}
  /\ UNCHANGED <<touchVars, docuGrid, dpc, docuCards, scrolledTo>>

\* init after the await: filter, sort, the first batch, io.observe(sentinel)
FetchOk ==
  /\ TaskMayRun
  /\ gpc = "fetching"
  /\ data' = Slugs(sortData(filterData(manifest, gKey)))
  /\ LET st == appendBatch(loaderState, data')
     IN  /\ idx' = st.idx
         /\ grid' = st.grid
         /\ mutationPending' = (Installed /\ st.mutated)
  /\ observing' = (sentinel # "absent")
  /\ gpc' = "ready"
  /\ UNCHANGED <<pageVars, sentinel, gKey, heading, intersecting,
                 prevIntersecting, entries, lgxVars>>
  /\ trail' = <<>>
  /\ UNCHANGED <<touchVars, staticVars>>

\* the user scrolls (or the layout settles) so that the sentinel is inside
\* the 800px root margin
ScrollToSentinel ==
  /\ TaskMayRun
  /\ sentinel = "attached"
  /\ ~intersecting
  /\ intersecting' = TRUE
  /\ UNCHANGED <<pageVars, sentinel, loaderVars, grid, observing,
                 prevIntersecting, entries, lgxVars, mutationPending>>
  /\ trail' = <<>>
  /\ UNCHANGED <<touchVars, staticVars>>

\* the sentinel leaves the root margin: the user scrolls away, or the cards
\* just appended push it down
SentinelLeaves ==
  /\ TaskMayRun
  /\ sentinel = "attached"
  /\ intersecting
  /\ intersecting' = FALSE
  /\ UNCHANGED <<pageVars, sentinel, loaderVars, grid, observing,
                 prevIntersecting, entries, lgxVars, mutationPending>>
  /\ trail' = <<>>
  /\ UNCHANGED <<touchVars, staticVars>>

\* a rendering frame: the browser queues an entry for the observed sentinel
\* when its intersection state differs from the one last reported (the first
\* observation always reports)
UpdateIntersection ==
  /\ TaskMayRun
  /\ observing
  /\ Len(entries) < MaxEntries
  /\ prevIntersecting # (IF intersecting THEN "yes" ELSE "no")
  /\ entries' = Append(entries, intersecting)
  /\ prevIntersecting' = (IF intersecting THEN "yes" ELSE "no")
  /\ UNCHANGED <<pageVars, sentinel, loaderVars, grid, observing,
                 intersecting, lgxVars, mutationPending>>
  /\ trail' = <<>>
  /\ UNCHANGED <<touchVars, staticVars>>

\* one delivery of the observer callback with every queued entry
IOCallback ==
  /\ TaskMayRun
  /\ entries # <<>>
  /\ LET st == ioCallback(entries, loaderState, data)
     IN  /\ idx' = st.idx
         /\ grid' = st.grid
         /\ observing' = st.observing
         /\ sentinel' = st.sentinel
         /\ intersecting' = (intersecting /\ st.sentinel = "attached")
         /\ mutationPending' = (Installed /\ st.mutated)
  /\ entries' = <<>>
  /\ UNCHANGED <<pageVars, gpc, gKey, heading, data, prevIntersecting,
                 lgxVars>>
  /\ trail' = <<>>
  /\ UNCHANGED <<touchVars, staticVars>>

(* ------------------------------ lightbox ------------------------------- *)

\* JavaScript's % takes the sign of the dividend
JSRem(a, n) == IF a >= 0 THEN a % n ELSE -((-a) % n)

\* indexOf counting positions from 1 (0 when img is not in the list)
indexOfOneBased(ns, img) ==
  CHOOSE i \in {IF at = {} THEN 0 ELSE Least(at) :
                  at \in {{k \in DOMAIN ns : ns[k] = img}}} : TRUE

\* nodes.indexOf(img), 0-based, -1 when img is not in the list
indexOf(ns, img) ==
  CHOOSE i \in {IF at = {} THEN -1 ELSE Least(at) - 1 :
                  at \in {{k \in DOMAIN ns : ns[k] = img}}} : TRUE

\* collect: nodes = Array.from(grid.querySelectorAll('img.cc-thumb'))
collect == nodes' = grid

\* show without the "+ nodes.length" that keeps the dividend positive
showNoWrap(i, ns) ==
  IF Len(ns) = 0
    THEN UNCHANGED <<cursor, imgEl>>
    ELSE /\ cursor' = JSRem(i, Len(ns))
         /\ imgEl' = IF cursor' \in 0..(Len(ns) - 1) THEN ns[cursor' + 1]
                     ELSE imgEl

\* show(i) on the node list ns (nodes, or nodes' when collect ran first in
\* the same handler); an index outside the list throws before the image is set
show(i, ns) ==
  IF Len(ns) = 0
    THEN UNCHANGED <<cursor, imgEl>>
    ELSE /\ cursor' = JSRem(i + Len(ns), Len(ns))
         /\ imgEl' = IF cursor' \in 0..(Len(ns) - 1) THEN ns[cursor' + 1]
                     ELSE imgEl

\* open that shows the first thumbnail whatever was clicked
openFirst(i, ns) ==
  /\ show(0, ns)
  /\ shown' = TRUE

\* open(i)
open(i, ns) ==
  /\ show(i, ns)
  /\ shown' = TRUE

\* setInterval hands out a handle that is not in use
NewTimer == CHOOSE t \in 1..MaxTimers : t \notin activeTimers

\* stop that forgets the handle without clearing the interval
stopNoClear ==
  /\ playing' = FALSE
  /\ timer' = 0
  /\ UNCHANGED activeTimers

\* stop: playing = false; if (timer) { clearInterval(timer); timer = null }
stop ==
  /\ playing' = FALSE
  /\ activeTimers' = activeTimers \ {timer}
  /\ timer' = 0

\* play without the guard on playing
playUnguarded ==
  IF Len(nodes) = 0
    THEN UNCHANGED <<playing, timer, activeTimers>>
    ELSE /\ playing' = TRUE
         /\ timer' = NewTimer
         /\ activeTimers' = activeTimers \cup {timer'}

\* play: if (playing || !nodes.length) return; ... timer = setInterval(next)
play ==
  IF playing \/ Len(nodes) = 0
    THEN UNCHANGED <<playing, timer, activeTimers>>
    ELSE /\ playing' = TRUE
         /\ timer' = NewTimer
         /\ activeTimers' = activeTimers \cup {timer'}

\* togglePlay
togglePlay == IF playing THEN stop ELSE play

\* close without the call of stop
closeNoStop ==
  /\ shown' = FALSE
  /\ UNCHANGED <<playing, timer, activeTimers>>

\* close
close ==
  /\ shown' = FALSE
  /\ stop

\* next that counts on without looking at the node list
nextUnbounded ==
  /\ cursor' = cursor + 1
  /\ imgEl' = imgEl

\* next and prev
next == show(cursor + 1, nodes)
prev == show(cursor - 1, nodes)

\* a mutation callback that also puts the cursor back to 0
MutationCallbackReset ==
  /\ Installed
  /\ mutationPending
  /\ collect
  /\ cursor' = 0
  /\ mutationPending' = FALSE
  /\ UNCHANGED <<pageVars, sentinel, loaderVars, grid, observerVars,
                 playing, timer, activeTimers, shown, imgEl>>
  /\ trail' = <<>>
  /\ UNCHANGED <<touchVars, staticVars>>

\* a mutation callback that does not recollect
MutationCallbackNoCollect ==
  /\ Installed
  /\ mutationPending
  /\ mutationPending' = FALSE
  /\ UNCHANGED <<pageVars, sentinel, loaderVars, grid, observerVars, lgxVars>>
  /\ trail' = <<>>
  /\ UNCHANGED <<touchVars, staticVars>>

\* the MutationObserver on the grid delivers its records: collect
MutationCallback ==
  /\ Installed
  /\ mutationPending
  /\ collect
  /\ mutationPending' = FALSE
  /\ UNCHANGED <<pageVars, sentinel, loaderVars, grid, observerVars, cursor,
                 playing, timer, activeTimers, shown, imgEl>>
  /\ trail' = <<>>
  /\ UNCHANGED <<touchVars, staticVars>>

\* click on the k-th thumbnail of the grid: collect, indexOf, open
ThumbClick(k) ==
  /\ Installed
  /\ TaskMayRun
  /\ k \in 1..Len(grid)
  /\ trail' = <<k, 0>>
  /\ collect
  /\ \E i \in {indexOf(nodes', grid[k])} :
       open(IF i >= 0 THEN i ELSE 0, nodes')
  /\ UNCHANGED <<pageVars, sentinel, loaderVars, grid, observerVars, playing,
                 timer, activeTimers, mutationPending>>
  /\ UNCHANGED <<touchVars, staticVars>>

\* the buttons carry the class lgx__btn, so the click that bubbles from one
\* of them to #lgx does not close the overlay
BtnClose ==
  /\ Installed
  /\ TaskMayRun
  /\ close
  /\ UNCHANGED <<pageVars, sentinel, loaderVars, grid, observerVars, nodes,
                 cursor, imgEl, mutationPending>>
  /\ trail' = <<>>
  /\ UNCHANGED <<touchVars, staticVars>>

BtnNext ==
  /\ Installed
  /\ TaskMayRun
  /\ next
  /\ UNCHANGED <<pageVars, sentinel, loaderVars, grid, observerVars, nodes,
                 playing, timer, activeTimers, shown, mutationPending>>
  /\ trail' = <<>>
  /\ UNCHANGED <<touchVars, staticVars>>

BtnPrev ==
  /\ Installed
  /\ TaskMayRun
  /\ prev
  /\ UNCHANGED <<pageVars, sentinel, loaderVars, grid, observerVars, nodes,
                 playing, timer, activeTimers, shown, mutationPending>>
  /\ trail' = <<>>
  /\ UNCHANGED <<touchVars, staticVars>>

BtnPlay ==
  /\ Installed
  /\ TaskMayRun
  /\ Cardinality(activeTimers) < MaxTimers
  /\ play
  /\ UNCHANGED <<pageVars, sentinel, loaderVars, grid, observerVars, nodes,
                 cursor, shown, imgEl, mutationPending>>
  /\ trail' = <<>>
  /\ UNCHANGED <<touchVars, staticVars>>

BtnPause ==
  /\ Installed
  /\ TaskMayRun
  /\ stop
  /\ UNCHANGED <<pageVars, sentinel, loaderVars, grid, observerVars, nodes,
                 cursor, shown, imgEl, mutationPending>>
  /\ trail' = <<>>
  /\ UNCHANGED <<touchVars, staticVars>>

\* the keys the keydown handler tells apart, and one it ignores
Keys == {"Escape", "ArrowRight", "ArrowLeft", " ", "a"}

\* keydown: nothing unless the overlay is shown
KeyDown(key) ==
  /\ Installed
  /\ TaskMayRun
  /\ shown
  /\ Cardinality(activeTimers) < MaxTimers
  /\ CASE key = "Escape" ->
            close /\ UNCHANGED <<cursor, imgEl>>
       [] key = "ArrowRight" ->
            next /\ UNCHANGED <<playing, timer, activeTimers, shown>>
       [] key = "ArrowLeft" ->
            prev /\ UNCHANGED <<playing, timer, activeTimers, shown>>
       [] key = " " ->
            togglePlay /\ UNCHANGED <<cursor, imgEl, shown>>
       [] OTHER ->
            UNCHANGED <<cursor, imgEl, playing, timer, activeTimers, shown>>
  /\ UNCHANGED <<pageVars, sentinel, loaderVars, grid, observerVars, nodes,
                 mutationPending>>
  /\ trail' = IF key = "ArrowRight" /\ trail # <<>> /\ trail[2] < MaxPresses
                THEN <<trail[1], trail[2] + 1>>
                ELSE <<>>
  /\ UNCHANGED <<touchVars, staticVars>>

\* click on #lgx itself: on the image nothing, anywhere else close
LgxClick(target) ==
  /\ Installed
  /\ TaskMayRun
  /\ IF target # "img"
       THEN close
       ELSE UNCHANGED <<playing, timer, activeTimers, shown>>
  /\ UNCHANGED <<pageVars, sentinel, loaderVars, grid, observerVars, nodes,
                 cursor, imgEl, mutationPending>>
  /\ trail' = <<>>
  /\ UNCHANGED <<touchVars, staticVars>>

\* the autoplay interval fires: next
TimerTick ==
  /\ TaskMayRun
  /\ activeTimers # {}
  /\ next
  /\ UNCHANGED <<pageVars, sentinel, loaderVars, grid, observerVars, nodes,
                 playing, timer, activeTimers, shown, mutationPending>>
  /\ trail' = <<>>
  /\ UNCHANGED <<touchVars, staticVars>>

Abs(x) == IF x < 0 THEN -x ELSE x

\* the touchend test with >= for > in both comparisons
swipesAtLeast(dx, dy) == Abs(dx) >= 40 /\ Abs(dx) >= Abs(dy)

\* the touchend test: Math.abs(dx) > 40 && Math.abs(dx) > Math.abs(dy)
swipes(dx, dy) == Abs(dx) > 40 /\ Abs(dx) > Abs(dy)

\* touchstart on #lgx; t is e.touches[0] as <<clientX, clientY>>, <<>> when
\* the list is empty
TouchStart(t) ==
  /\ Installed
  /\ TaskMayRun
  /\ IF t = <<>>
       THEN UNCHANGED <<sx, sy>>
       ELSE sx' = t[1] /\ sy' = t[2]
  /\ trail' = <<>>
  /\ UNCHANGED <<pageVars, sentinel, loaderVars, grid, observerVars, lgxVars,
                 mutationPending, staticVars>>

\* touchend on #lgx; t is e.changedTouches[0]
TouchEnd(t) ==
  /\ Installed
  /\ TaskMayRun
  /\ IF t = <<>>
       THEN UNCHANGED <<cursor, imgEl>>
       ELSE \E dx \in {t[1] - sx}, dy \in {t[2] - sy} :
              IF swipes(dx, dy)
                THEN (IF dx < 0 THEN next ELSE prev)
                ELSE UNCHANGED <<cursor, imgEl>>
  /\ trail' = <<>>
  /\ UNCHANGED <<touchVars, shown, playing, timer, activeTimers,
                 mutationPending, sentinel, observerVars, loaderVars, nodes,
                 grid, staticVars, pageVars>>

(* ------------- documentary renderer and anchor-scroll helper ----------- *)

\* the ids of the hard-coded videos
videos == <<"hjRtHOO40L4", "4uPAnSuYyb0", "_UM3xL7yUSY">>

\* the DOMContentLoaded handler of the documentary renderer: the cards are
\* built in a fragment, then grid.appendChild(frag); on a null grid that
\* member access throws a TypeError
DocuRender ==
  /\ TaskMayRun
  /\ dpc = "loading"
  /\ IF docuGrid
       THEN /\ docuCards' = docuCards \o videos
            /\ dpc' = "done"
            /\ UNCHANGED uncaught
       ELSE /\ dpc' = "threw"
            /\ uncaught' = uncaught \cup {"TypeError"}
            /\ UNCHANGED docuCards
  /\ trail' = <<>>
  /\ UNCHANGED <<pageVars, sentinel, loaderVars, grid, observerVars, lgxVars,
                 mutationPending, touchVars, docuGrid, scrolledTo>>

\* the selectors that name an element of the page
ElementSelectors == {"#top"}

\* what a click can land on: no a[href^="#"] around it ("none"), or such a
\* link with this href
Hrefs == {"none", "#", "#top", "#gone"}

\* document.querySelector(sel): "#" alone is not a valid selector and throws
\* a SyntaxError; a valid selector gives its element, or null
querySelector(sel) ==
  IF sel = "#" THEN "SyntaxError"
  ELSE IF sel \in ElementSelectors THEN sel
  ELSE "null"

\* the click handler of main.js
AnchorClick(href) ==
  /\ TaskMayRun
  /\ IF href = "none"
       THEN UNCHANGED <<scrolledTo, uncaught>>
       ELSE \E el \in {querySelector(href)} :
              IF el = "SyntaxError"
                THEN /\ uncaught' = uncaught \cup {"SyntaxError"}
                     /\ UNCHANGED scrolledTo
                ELSE /\ scrolledTo' = IF el = "null" THEN scrolledTo ELSE el
                     /\ UNCHANGED uncaught
  /\ trail' = <<>>
  /\ UNCHANGED <<pageVars, sentinel, loaderVars, grid, observerVars, lgxVars,
                 mutationPending, touchVars, docuGrid, dpc, docuCards>>

(* --------------------------- specifications ---------------------------- *)

\* the record of a photo: its position in the manifest stands for its slug
Photo(slug, gallery, datetime) ==
  [slug |-> slug, gallery |-> gallery, datetime |-> datetime]

Galleries == {None, Some(Str_Wildlife), Some(Str_zoo)}
DateTimes == {None, Some(<<>>), Some(<<"2">>), Some(<<"1", "2">>)}

\* m is a manifest of at most MaxManifest records, of any tags and datetimes
IsSmallManifest(m) ==
  \E n \in 0..MaxManifest :
    \E gs \in [1..n -> Galleries], ds \in [1..n -> DateTimes] :
      m = [k \in 1..n |-> Photo(k, gs[k], ds[k])]

LoadKeys ==
  {None, Some(<<>>), Some(Str_all), Some(Str_ALL), Some(Str_wildlife),
   Some(Str_Zoo), Some(Str_panoramas)}

\* a manifest of n records whose tags and datetimes vary with the position
GenManifest(n) ==
  [k \in 1..n |->
     Photo(k,
           IF k % 5 = 0 THEN Some(Str_all) ELSE Some(Str_Zoo),
           CASE k % 4 = 0 -> None
             [] k % 4 = 1 -> Some(<<"1">>)
             [] k % 4 = 2 -> Some(<<"2">>)
             [] OTHER -> Some(<<"1", "2">>))]

PageSizes == {0, 1, 5, BATCH_SIZE, BATCH_SIZE + 1, MaxRecords}

\* where a touch starts and where it ends: displacements of 0, 1, 40 and 41
\* pixels along either axis, in both directions; <<>> for an empty touch list
StartPoints == {<<>>, <<0, 0>>, <<41, 41>>}
EndPoints == {<<>>, <<41, 0>>, <<40, 0>>, <<41, 41>>, <<0, 40>>, <<1, 41>>}

\* the thumbnails the user clicks, of n in the grid: the first two, the
\* last, and those at the edges of the batches
ClickTargets(n) ==
  {k \in 1..n : k <= 2 \/ k = n \/ k % BATCH_SIZE \in {0, 1}}
PageKeys == {None, Some(Str_zoo)}

InitRest ==
  /\ gpc = "loading"
  /\ gKey = <<>>
  /\ heading = <<>>
  /\ data = <<>>
  /\ idx = 0
  /\ grid = <<>>
  /\ observing = FALSE
  /\ prevIntersecting = "none"
  /\ entries = <<>>
  /\ nodes = <<>>
  /\ cursor = 0
  /\ playing = FALSE
  /\ timer = 0
  /\ activeTimers = {}
  /\ shown = FALSE
  /\ imgEl = 0
  /\ mutationPending = FALSE
  /\ sx = 0
  /\ sy = 0
  /\ trail = <<>>
  /\ dpc = "loading"
  /\ docuCards = <<>>
  /\ scrolledTo = "none"
  /\ uncaught = {}

\* the page as the scripts find it
InitPage ==
  /\ g \in PageKeys
  /\ manifest \in {GenManifest(n) : n \in PageSizes}
  /\ container \in BOOLEAN
  /\ lgx \in BOOLEAN
  /\ sentinel \in {"absent", "attached"}
  /\ intersecting \in (IF sentinel = "attached" THEN BOOLEAN ELSE {FALSE})
  /\ InitRest

\* a gallery page (no #docuGrid) with the loader and the lightbox; the
\* documentary renderer and the anchor helper share no state with them and
\* are followed in SpecStatic
Init ==
  /\ InitPage
  /\ docuGrid = FALSE

Next ==
  \/ DOMContentLoaded
  \/ FetchFail
  \/ FetchOk
  \/ ScrollToSentinel
  \/ SentinelLeaves
  \/ UpdateIntersection
  \/ IOCallback
  \/ MutationCallback
  \/ \E k \in ClickTargets(Len(grid)) : ThumbClick(k)
  \/ BtnClose
  \/ BtnNext
  \/ BtnPrev
  \/ BtnPlay
  \/ BtnPause
  \/ \E key \in Keys : KeyDown(key)
  \/ \E target \in {"img", "caption", "backdrop"} : LgxClick(target)
  \/ TimerTick
  \/ \E t \in StartPoints : TouchStart(t)
  \/ \E t \in EndPoints : TouchEnd(t)

Spec == Init /\ [][Next]_vars

\* the loader and its observer on a page without the lightbox
InitLoader ==
  /\ Init
  /\ container
  /\ ~lgx

NextLoader ==
  \/ DOMContentLoaded
  \/ FetchFail
  \/ FetchOk
  \/ ScrollToSentinel
  \/ SentinelLeaves
  \/ UpdateIntersection
  \/ IOCallback

\* The browser runs what it has queued: the DOMContentLoaded handler, the
\* continuation of a fetch that succeeds, the observer's sampling at every
\* frame and the delivery of queued entries.  The user is taken to scroll
\* down to the sentinel whenever it is out of reach, and is not taken to
\* ever scroll away from it.
LiveSpec ==
  /\ InitLoader
  /\ [][NextLoader]_vars
  /\ WF_vars(DOMContentLoaded)
  /\ WF_vars(FetchOk)
  /\ SF_vars(UpdateIntersection)
  /\ SF_vars(IOCallback)
  /\ SF_vars(ScrollToSentinel)

\* the scripts that documentaries.js and main.js add to a page without the
\* lightbox overlay: the documentary renderer, the loader, the anchor helper
InitStatic ==
  /\ InitPage
  /\ ~lgx
  /\ docuGrid \in BOOLEAN

NextStatic ==
  \/ DocuRender
  \/ \E href \in Hrefs : AnchorClick(href)
  \/ DOMContentLoaded
  \/ FetchFail
  \/ FetchOk
  \/ ScrollToSentinel
  \/ SentinelLeaves
  \/ UpdateIntersection
  \/ IOCallback

SpecStatic == InitStatic /\ [][NextStatic]_vars

\* the loader alone, on every small manifest and every kind of g
InitLoad ==
  /\ g \in LoadKeys
  /\ IsSmallManifest(manifest)
  /\ container = TRUE
  /\ lgx = FALSE
  /\ docuGrid = FALSE
  /\ sentinel = "absent"
  /\ intersecting = FALSE
  /\ InitRest

NextLoad ==
  \/ DOMContentLoaded
  \/ FetchOk

SpecLoad == InitLoad /\ [][NextLoad]_vars

(* ------------------------------- claims -------------------------------- *)

\* the slugs of the records init kept
Kept == {data[k] : k \in DOMAIN data}

AllSlugs == {manifest[k].slug : k \in DOMAIN manifest}

\* the records whose gallery tag is there and equals the parameter when both
\* are lower-cased
Matching(param) ==
  {manifest[k].slug : k \in
     {j \in DOMAIN manifest :
        /\ manifest[j].gallery.present
        /\ toLowerCase(manifest[j].gallery.s) = toLowerCase(param.s)}}

\* C1 as stated: for g other than "all" the kept records are exactly those
\* whose tag equals g case-insensitively (untagged records never), and for
\* g = "all" or an absent g every record is kept.
C1_FilterAsStated ==
  gpc = "ready" =>
    IF ~g.present \/ toLowerCase(g.s) = Str_all
      THEN Kept = AllSlugs
      ELSE Kept = Matching(g)

\* C1 amended: an empty g parameter (?g=) counts as "all" too.  For g absent,
\* empty or "all" in any letter case every record is kept, each once; for
\* every other g exactly the records whose tag equals g case-insensitively
\* are kept, each once, and an untagged record never is.
C1_Filter ==
  gpc = "ready" =>
    /\ Len(data) = Cardinality(Kept)
    /\ IF ~g.present \/ g.s = <<>> \/ toLowerCase(g.s) = Str_all
         THEN Kept = AllSlugs
         ELSE Kept = Matching(g)

\* C1 witness: a tag and a g that differ in letter case only, with a record
\* kept, a record dropped and an untagged record
C1_Witness ==
  /\ gpc = "ready"
  /\ g.present /\ g.s # <<>> /\ toLowerCase(g.s) # Str_all
  /\ \E k \in DOMAIN manifest :
       /\ manifest[k].slug \in Kept
       /\ manifest[k].gallery.s # g.s
  /\ \E k \in DOMAIN manifest :
       manifest[k].gallery.present /\ manifest[k].slug \notin Kept
  /\ \E k \in DOMAIN manifest :
       ~manifest[k].gallery.present /\ manifest[k].slug \notin Kept

\* the datetime string the sort sees for the k-th record of data
DateOf(k) == OrEmpty(manifest[data[k]].datetime)

\* a comes strictly before b in the order of the character codes
StrBefore(a, b) ==
  \E k \in 1..Len(b) :
    /\ \A j \in 1..(k - 1) : j <= Len(a) /\ a[j] = b[j]
    /\ \/ k = Len(a) + 1
       \/ k <= Len(a) /\ Rank(a[k]) < Rank(b[k])

\* C2: after the sort the records are in descending datetime order, records
\* with equal datetime keep their manifest order, and every record with a
\* missing or empty datetime comes after every record that has one.
C2_Sorted ==
  gpc = "ready" =>
    \A i, j \in DOMAIN data :
      i < j =>
        /\ ~StrBefore(DateOf(i), DateOf(j))
        /\ DateOf(i) = DateOf(j) => data[i] < data[j]
        /\ DateOf(i) = <<>> => DateOf(j) = <<>>

\* C2 witness: the sort moved a record, kept two equal datetimes in manifest
\* order, and put a record without a (non-empty) datetime last
C2_Witness ==
  /\ gpc = "ready"
  /\ Len(data) >= 3
  /\ \E i, j \in DOMAIN data : i < j /\ data[i] > data[j]
  /\ \E i, j \in DOMAIN data :
       i < j /\ DateOf(i) = DateOf(j) /\ DateOf(i) # <<>>
  /\ \E i \in DOMAIN data : DateOf(i) # <<>> /\ DateOf(Len(data)) = <<>>

\* the number of intersecting entries of a delivery
RECURSIVE NumIntersecting(_)
NumIntersecting(es) ==
  IF es = <<>> THEN 0
  ELSE (IF Head(es) THEN 1 ELSE 0) + NumIntersecting(Tail(es))

\* C3 as stated: no step, whatever entries a delivery carries, appends more
\* than BATCH_SIZE cards to the grid.
C3_BatchBoundAsStated ==
  [][Len(grid') - Len(grid) <= BATCH_SIZE]_vars

\* C3 amended: the initial render appends at most BATCH_SIZE cards, and one
\* delivery of the observer callback appends at most BATCH_SIZE cards for
\* each intersecting entry it carries (so more than BATCH_SIZE when the
\* sentinel entered, left and entered again before the delivery).
C3_BatchBound ==
  [][Len(grid') - Len(grid) <=
       BATCH_SIZE * (IF gpc = "fetching" THEN 1 ELSE NumIntersecting(entries))]_vars

\* C3 witness: a delivery with two intersecting entries is due while more
\* than one batch is still to render
C3_Witness ==
  /\ gpc = "ready"
  /\ NumIntersecting(entries) = 2
  /\ Len(data) - idx > BATCH_SIZE

\* C4: once the fetch succeeded and the sentinel is observed, the number of
\* rendered cards eventually equals the size of the filtered set.
C4_Converges ==
  (gpc = "ready" /\ sentinel = "attached") ~> (Len(grid) = Len(data))

\* C5 as stated: the sentinel is removed and observation stopped no later
\* than the step that renders the last record, the initial batch included.
C5_RemovalAsStated ==
  (gpc = "ready" /\ sentinel # "absent" /\ idx = Len(data)) =>
    (sentinel = "removed" /\ ~observing)

\* C5 amended: the sentinel is removed, and observation stopped with it, in
\* the first delivery of the observer callback that carries an intersecting
\* entry and leaves no record unrendered: the delivery that renders the last
\* record, or, when the initial batch rendered everything (or the filtered
\* set is empty), the first delivery with an intersecting entry after it.
\* It is never removed while records remain, it is removed once, and after
\* that no card is appended.
C5_Removal ==
  [][/\ sentinel' = "removed" => idx' = Len(data') /\ ~observing'
     /\ (sentinel = "attached" /\ sentinel' = "removed") =>
          entries # <<>> /\ entries' = <<>> /\ NumIntersecting(entries) > 0
     /\ (entries # <<>> /\ entries' = <<>> /\ NumIntersecting(entries) > 0
           /\ idx' = Len(data)) => sentinel' = "removed"
     /\ (observing /\ ~observing') => sentinel' = "removed"
     /\ sentinel = "removed" =>
          sentinel' = "removed" /\ grid' = grid /\ idx' = idx]_vars

\* C5 witness: the sentinel is gone after the third batch rendered the last
\* record
C5_Witness ==
  /\ sentinel = "removed"
  /\ ~observing
  /\ Len(grid) = Len(data)
  /\ Len(data) > 2 * BATCH_SIZE

\* the steps that call next(), prev() and close()
NextStep == BtnNext \/ KeyDown("ArrowRight") \/ TimerTick
PrevStep == BtnPrev \/ KeyDown("ArrowLeft")
CloseStep ==
  BtnClose \/ KeyDown("Escape") \/ LgxClick("backdrop") \/ LgxClick("caption")
PlayStep == BtnPlay \/ KeyDown(" ")

\* C6: with n >= 1 collected thumbnails, next() from cursor n-1 sets the
\* cursor to 0 and prev() from cursor 0 sets it to n-1; from any other
\* cursor next adds 1 and prev subtracts 1.
C6_Wraparound ==
  [][(Len(nodes) >= 1 /\ cursor \in 0..(Len(nodes) - 1)) =>
       /\ NextStep =>
            cursor' = (IF cursor = Len(nodes) - 1 THEN 0 ELSE cursor + 1)
       /\ PrevStep =>
            cursor' = (IF cursor = 0 THEN Len(nodes) - 1 ELSE cursor - 1)]_vars

\* C6 witness: the overlay shows the last of several thumbnails and one
\* step of next() takes the cursor to 0
C6_Witness ==
  /\ shown
  /\ Len(nodes) > BATCH_SIZE
  /\ cursor = Len(nodes) - 1
  /\ ENABLED (BtnNext /\ cursor' = 0)

\* C7: at most one autoplay interval is active, one is active exactly when
\* playing is true (and timer holds its handle), hence none after stop() or
\* close()
C7_OneTimer ==
  /\ Cardinality(activeTimers) <= 1
  /\ playing <=> activeTimers # {}
  /\ activeTimers = (IF timer = 0 THEN {} ELSE {timer})

\* C7 witness: autoplay runs on one interval while the overlay is shown
C7_Witness ==
  /\ playing
  /\ shown
  /\ activeTimers = {timer}
  /\ timer # 0

\* C8: closing by any route leaves playing false and no interval to tick;
\* while not playing no tick happens, and only play (button or spacebar)
\* starts playing again, so reopening by a thumbnail click does not
C8_CloseStops ==
  [][/\ CloseStep => ~shown' /\ ~playing' /\ activeTimers' = {}
     /\ ~playing => ~TimerTick
     /\ (~playing /\ playing') => PlayStep
     /\ (activeTimers = {} /\ activeTimers' # {}) => PlayStep]_vars

\* C8 witness: the overlay is closed and idle at a cursor that navigation
\* had moved, with thumbnails to reopen on
C8_Witness ==
  /\ ~shown
  /\ ~playing
  /\ cursor > 0
  /\ ENABLED (\E k \in ClickTargets(Len(grid)) :
                ThumbClick(k) /\ ~playing' /\ shown')

\* C9: every navigation step starts from a node list that holds every
\* thumbnail of the grid, so next() counts modulo the grid's current length
\* and, from the last index before a batch was appended, shows the first
\* thumbnail of that batch
C9_LiveRecollection ==
  [][/\ (NextStep \/ PrevStep) => nodes = grid
     /\ (NextStep /\ grid # <<>>) =>
          /\ cursor' = (cursor + 1) % Len(grid)
          /\ imgEl' = grid[cursor' + 1]]_vars

\* C9 witness: the overlay is open on the last collected thumbnail and a
\* batch has just been appended
C9_Witness ==
  /\ shown
  /\ mutationPending
  /\ nodes # <<>>
  /\ cursor = Len(nodes) - 1
  /\ Len(grid) > Len(nodes)

\* C10 as stated, read generously for the click (which may set the cursor
\* to the clicked thumbnail): a recollection by the mutation observer
\* resets the cursor to its initial value 0
C10_ResetAsStated ==
  [][/\ MutationCallback => cursor' = 0
     /\ \A k \in ClickTargets(Len(grid)) :
          ThumbClick(k) => cursor' \in {0, k - 1}]_vars

\* C10 amended: a recollection by the mutation observer leaves the cursor
\* and the displayed image as they are; a thumbnail click recollects and
\* sets the cursor to the index of the clicked thumbnail.
C10_CursorKept ==
  [][/\ MutationCallback =>
          nodes' = grid /\ cursor' = cursor /\ imgEl' = imgEl
     /\ \A k \in ClickTargets(Len(grid)) :
          ThumbClick(k) => nodes' = grid /\ cursor' = k - 1]_vars

\* C10 witness: a recollection is due while the cursor is not 0
C10_Witness ==
  /\ cursor > 0
  /\ ENABLED (MutationCallback /\ Len(nodes') > Len(nodes))

\* C11 as stated: after a click on the 2nd of 5 thumbnails and three presses
\* of the right-arrow key the cursor is (2 + 3) mod 5 = 0
C11_ExampleAsStated ==
  (trail = <<2, 3>> /\ Len(nodes) = 5) => cursor = 0

\* C11 amended: the 2nd thumbnail has index 1, so after the click and three
\* presses of the right-arrow key the cursor is (1 + 3) mod 5 = 4, the last
\* thumbnail; in general a click on the k-th of n thumbnails followed by p
\* presses leaves the cursor at (k - 1 + p) mod n, on that thumbnail's image.
C11_Example ==
  /\ (trail = <<2, 3>> /\ Len(nodes) = 5) => cursor = 4
  /\ trail # <<>> =>
       /\ nodes # <<>>
       /\ cursor = (trail[1] - 1 + trail[2]) % Len(nodes)
       /\ imgEl = nodes[cursor + 1]

\* C11 witness: the 2nd of 5 thumbnails was clicked and the right arrow
\* pressed three times
C11_Witness ==
  /\ trail = <<2, 3>>
  /\ Len(nodes) = 5
  /\ shown

\* C12: a click on the k-th thumbnail of the grid, whatever the cursor and
\* the overlay were before and however many batches the grid holds, leaves
\* the overlay shown, the node list equal to the grid, the cursor at k - 1
\* and the clicked thumbnail's image displayed.
C12_OpenOnClick ==
  [][\A k \in ClickTargets(Len(grid)) :
       ThumbClick(k) =>
         /\ shown'
         /\ nodes' = grid'
         /\ cursor' = k - 1
         /\ imgEl' = grid'[k]]_vars

\* C12 witness: the overlay has just been opened by a click on a thumbnail
\* of the third batch
C12_Witness ==
  /\ trail # <<>>
  /\ trail[2] = 0
  /\ trail[1] > 2 * BATCH_SIZE
  /\ shown
  /\ cursor = trail[1] - 1

\* C13: once the manifest fetch has failed, init's error is uncaught, no card
\* is rendered and none ever will be, nothing is observed, the heading set
\* before the fetch stays, and init never leaves the failed state (no retry).
C13_FetchFailure ==
  /\ [](gpc = "failed" =>
          /\ "Error" \in uncaught
          /\ grid = <<>>
          /\ idx = 0
          /\ ~observing
          /\ entries = <<>>
          /\ sentinel # "removed"
          /\ gKey = getGalleryKey(g)
          /\ heading = setHeading(gKey))
  /\ [][gpc = "failed" => gpc' = "failed"]_vars

\* C13 witness: the fetch failed on a page with a sentinel in view and a
\* category heading, and the user opened nothing
C13_Witness ==
  /\ gpc = "failed"
  /\ sentinel = "attached"
  /\ intersecting
  /\ g.present
  /\ heading = Str_all

\* g names no known label: it is there, not empty, and is no key of LABELS
\* in any letter case
UnknownCategory == g.present /\ g.s # <<>> /\ toLowerCase(g.s) \notin LABELS

C15_MissingContainer ==
  ~container =>
    /\ gpc \in {"loading", "aborted"}
    /\ "Error" \notin uncaught
    /\ gKey = <<>>
    /\ heading = <<>>
    /\ data = <<>>
    /\ idx = 0
    /\ grid = <<>>
    /\ ~observing
    /\ entries = <<>>
    /\ sentinel # "removed"

\* C15 witness: init has ended on a page without the container that has a
\* category in its URL, a manifest to fetch and a sentinel in view
C15_Witness ==
  /\ ~container
  /\ gpc = "aborted"
  /\ g.present
  /\ manifest # <<>>
  /\ sentinel = "attached"
  /\ intersecting

\* C16: with its target missing each of the two scripts ends its handler
\* without an error and without a change to the page: on a page without
\* #docuGrid the documentary renderer ends normally and adds no card, and a
\* click on a link whose href matches no element raises nothing and scrolls
\* nowhere.
C16_SilentNoOps ==
  /\ ~docuGrid => (dpc \in {"loading", "done"} /\ docuCards = <<>>)
  /\ "TypeError" \notin uncaught
  /\ "SyntaxError" \notin uncaught
  /\ scrolledTo \in {"none"} \cup ElementSelectors

\* a swipe that the touchend handler takes for one
SwipeStep == \E t \in EndPoints : TouchEnd(t)

\* C17: a timer tick happens only while playing, and it moves the cursor
\* forward by one position modulo the number of nodes at that time, showing
\* that node's image; while not playing the cursor changes only in a step of
\* a thumbnail click (open), a next or prev button, a key press or a swipe.
C17_AutoplayAdvance ==
  [][/\ TimerTick =>
          /\ playing
          /\ nodes # <<>>
          /\ cursor' = (cursor + 1) % Len(nodes)
          /\ imgEl' = nodes[cursor' + 1]
          /\ nodes' = nodes /\ playing'
     /\ (~playing /\ cursor' # cursor) =>
          \/ \E k \in ClickTargets(Len(grid)) : ThumbClick(k)
          \/ BtnNext
          \/ BtnPrev
          \/ \E key \in Keys : KeyDown(key)
          \/ SwipeStep]_vars

\* C17 witness: autoplay runs on the last node of a list of several batches,
\* so that the next tick wraps to the first
C17_Witness ==
  /\ playing
  /\ shown
  /\ Len(nodes) > BATCH_SIZE
  /\ cursor = Len(nodes) - 1
  /\ ENABLED (TimerTick /\ cursor' = 0)

\* C18: on touchend, with dx and dy the displacement from the touchstart,
\* next is applied when |dx| > 40, |dx| > |dy| and dx < 0, prev when
\* |dx| > 40, |dx| > |dy| and dx > 0 (each moving the cursor by one position
\* cyclically), and for every other displacement, |dx| = 40 and |dx| = |dy|
\* among them, the cursor and the image stay as they are.
C18_Swipe ==
  [][\A t \in EndPoints \ {<<>>} :
       TouchEnd(t) =>
         LET dx == t[1] - sx
             dy == t[2] - sy
             n == Len(nodes)
         IN  IF Abs(dx) > 40 /\ Abs(dx) > Abs(dy) /\ n > 0
               THEN cursor' = IF dx < 0 THEN (cursor + 1) % n
                              ELSE (cursor + n - 1) % n
               ELSE cursor' = cursor /\ imgEl' = imgEl]_vars

\* C18 witness: a touch began at (41, 41) on an open overlay with several
\* nodes; ending it 41 pixels to the left moves the cursor forward, ending
\* it 40 pixels to the left does not
C18_Witness ==
  /\ shown
  /\ sx = 41
  /\ sy = 41
  /\ Len(nodes) > 1
  /\ ENABLED (TouchEnd(<<0, 40>>) /\ cursor' = (cursor + 1) % Len(nodes))
  /\ ENABLED (TouchEnd(<<1, 41>>) /\ cursor' = cursor)

\* C19: whenever the node list is not empty the cursor is one of its
\* indices, 0 <= cursor < Len(nodes), and shows that node's image once an
\* image was shown; and while the node list is empty every next, prev, key,
\* tick and swipe leaves the cursor and the displayed image unchanged.
C19_CursorValid ==
  /\ [](nodes # <<>> =>
          /\ cursor \in 0..(Len(nodes) - 1)
          /\ imgEl # 0 => imgEl = nodes[cursor + 1])
  /\ [][(nodes = <<>> /\ (NextStep \/ PrevStep \/ SwipeStep)) =>
          (cursor' = cursor /\ imgEl' = imgEl)]_vars

\* C19 witness: after clicks, swipes and autoplay the cursor stands on the
\* last node of a list that was recollected after a batch was appended
C19_Witness ==
  /\ Len(nodes) > BATCH_SIZE
  /\ cursor = Len(nodes) - 1
  /\ playing
  /\ sx = 41
  /\ imgEl = nodes[cursor + 1]

\* C20: at every moment the cards in the grid are the first idx records of
\* the sorted filtered list, in that order and each once, with
\* 0 <= idx <= Len(data); and idx never decreases, the grid only growing at
\* its end.
C20_RenderedPrefix ==
  /\ [](/\ idx \in 0..Len(data)
        /\ grid = SubSeq(data, 1, idx)
        /\ Cardinality({grid[k] : k \in DOMAIN grid}) = Len(grid))
  /\ [][/\ idx' >= idx
        /\ Len(grid') >= Len(grid)
        /\ SubSeq(grid', 1, Len(grid)) = grid]_vars

\* C20 witness: two batches of a filtered and sorted list are rendered and
\* records are left
C20_Witness ==
  /\ gpc = "ready"
  /\ idx = 2 * BATCH_SIZE
  /\ idx < Len(data)
  /\ Len(grid) = idx
  /\ \E k \in DOMAIN data : data[k] # k

\* C21: autoplay runs only while the overlay is open: in every reachable
\* state playing implies that #lgx carries the class show, so the lightbox
\* is closed and not playing, open and idle, or open and playing.
C21_PlayingOnlyWhileOpen ==
  /\ playing => shown
  /\ activeTimers # {} => shown

====
